---- MODULE Spec2Model ----
(***************************************************************************)
(* Device Radar: the start-up subnet detection (utils/network_utils.py),   *)
(* the DeviceRadarApp of dev.py (subnet entry, scan thread, device list,   *)
(* radar canvas, selection and troll button) and the MAC classification.   *)
(*                                                                         *)
(* Text is a sequence of one-character strings, so that strip(), upper(),  *)
(* replace(), split() and the parsing done by ipaddress.IPv4Network are    *)
(* computed character by character.                                        *)
(***************************************************************************)
EXTENDS Integers, Sequences, FiniteSets, TLC

(***************************************************************************)
(* Bounds of the model.                                                    *)
(***************************************************************************)
\* the longest reply list one arping sweep returns
MaxReplies == 2

(***************************************************************************)
(* Text helpers.                                                           *)
(***************************************************************************)
Digits == <<"0", "1", "2", "3", "4", "5", "6", "7", "8", "9">>

IsDigit(c) == \E i \in 1..10 : Digits[i] = c

DigitVal(c) == (CHOOSE i \in 1..10 : Digits[i] = c) - 1

\* int(s) for a non-empty text of ASCII digits
RECURSIVE ParseInt(_)
ParseInt(s) ==
    IF Len(s) = 0 THEN 0
    ELSE 10 * ParseInt(SubSeq(s, 1, Len(s) - 1)) + DigitVal(s[Len(s)])

\* str(n) for n >= 0
RECURSIVE DecText(_)
DecText(n) ==
    IF n < 10 THEN <<Digits[n + 1]>>
    ELSE Append(DecText(n \div 10), Digits[(n % 10) + 1])

\* s.split(sep) for a one-character separator
RECURSIVE Split(_, _)
Split(s, sep) ==
    IF \A i \in 1..Len(s) : s[i] # sep THEN <<s>>
    ELSE LET k == CHOOSE i \in 1..Len(s) :
                      s[i] = sep /\ \A j \in 1..(i - 1) : s[j] # sep
         IN  <<SubSeq(s, 1, k - 1)>> \o Split(SubSeq(s, k + 1, Len(s)), sep)

\* s.strip(): leading and trailing blanks removed
RECURSIVE Strip(_)
Strip(s) ==
    IF Len(s) = 0 THEN s
    ELSE IF s[1] = " " THEN Strip(Tail(s))
    ELSE IF s[Len(s)] = " " THEN Strip(SubSeq(s, 1, Len(s) - 1))
    ELSE s

LowerHex == <<"a", "b", "c", "d", "e", "f">>
UpperHex == <<"A", "B", "C", "D", "E", "F">>

UpperChar(c) ==
    IF \E i \in 1..6 : LowerHex[i] = c
    THEN UpperHex[CHOOSE i \in 1..6 : LowerHex[i] = c]
    ELSE c

LowerChar(c) ==
    IF \E i \in 1..6 : UpperHex[i] = c
    THEN LowerHex[CHOOSE i \in 1..6 : UpperHex[i] = c]
    ELSE c

\* s.upper() and s.lower() (the letters of a MAC address are a..f)
StrUpper(s) == [i \in 1..Len(s) |-> UpperChar(s[i])]
StrLower(s) == [i \in 1..Len(s) |-> LowerChar(s[i])]

\* s.replace(c, '')
RECURSIVE RemoveChar(_, _)
RemoveChar(s, c) ==
    IF Len(s) = 0 THEN s
    ELSE IF s[1] = c THEN RemoveChar(Tail(s), c)
    ELSE <<s[1]>> \o RemoveChar(Tail(s), c)

\* s[:n]
Take(s, n) == SubSeq(s, 1, IF Len(s) < n THEN Len(s) ELSE n)

\* s.startswith(p)
StartsWith(s, p) == Len(s) >= Len(p) /\ SubSeq(s, 1, Len(p)) = p

\* sep.join(parts)
RECURSIVE Join(_, _)
Join(parts, sep) ==
    IF Len(parts) = 0 THEN <<>>
    ELSE IF Len(parts) = 1 THEN parts[1]
    ELSE parts[1] \o <<sep>> \o Join(Tail(parts), sep)

(***************************************************************************)
(* ipaddress.IPv4Network(text, strict=False) and str() of the network, as  *)
(* used by update_subnet (dev.py:121) and get_local_subnet                 *)
(* (network_utils.py:18-19).  The texts of this model give the prefix as a *)
(* decimal length; the dotted netmask form is not among them and is        *)
(* rejected here.                                                          *)
(***************************************************************************)
\* one octet: 1 to 3 ASCII digits, no leading zero, at most 255
OctetOk(o) ==
    /\ Len(o) \in 1..3
    /\ \A i \in 1..Len(o) : IsDigit(o[i])
    /\ (Len(o) > 1 => o[1] # "0")
    /\ ParseInt(o) <= 255

AddressOk(a) ==
    LET parts == Split(a, ".")
    IN  /\ Len(a) > 0
        /\ Len(parts) = 4
        /\ \A i \in 1..4 : OctetOk(parts[i])

PrefixOk(p) ==
    /\ Len(p) \in 1..3
    /\ \A i \in 1..Len(p) : IsDigit(p[i])
    /\ ParseInt(p) <= 32

\* whether IPv4Network(text, strict=False) returns (TRUE) or raises (FALSE)
NetworkOk(text) ==
    LET parts == Split(text, "/")
    IN  /\ Len(parts) \in 1..2
        /\ AddressOk(parts[1])
        /\ (Len(parts) = 2 => PrefixOk(parts[2]))

Pow2(k) == IF k = 0 THEN 1 ELSE IF k = 1 THEN 2 ELSE IF k = 2 THEN 4
           ELSE IF k = 3 THEN 8 ELSE IF k = 4 THEN 16 ELSE IF k = 5 THEN 32
           ELSE IF k = 6 THEN 64 ELSE IF k = 7 THEN 128 ELSE 256

\* the bits of octet i (1..4) that a prefix of length p keeps
MaskOctet(v, i, p) ==
    LET keep == IF p >= 8 * i THEN 8
                ELSE IF p <= 8 * (i - 1) THEN 0
                ELSE p - 8 * (i - 1)
    IN  (v \div Pow2(8 - keep)) * Pow2(8 - keep)

\* the network IPv4Network(text, strict=False) builds: the host bits cleared
IPv4Network(text) ==
    LET parts  == Split(text, "/")
        octets == Split(parts[1], ".")
        p      == IF Len(parts) = 2 THEN ParseInt(parts[2]) ELSE 32
    IN  [addr   |-> [i \in 1..4 |-> MaskOctet(ParseInt(octets[i]), i, p)],
         prefix |-> p]

\* str(net)
NetText(net) ==
    Join([i \in 1..4 |-> DecText(net.addr[i])], ".")
        \o <<"/">> \o DecText(net.prefix)

\* the dotted text of an address
IpText(a) == Join([i \in 1..4 |-> DecText(a[i])], ".")

(***************************************************************************)
(* The MAC classification of scan_network (dev.py:160-164).                *)
(***************************************************************************)
\* the prefix taken without upper-casing
VendorNoUpper(mac) == Take(RemoveChar(mac, ":"), 6)

Vendor(mac) == Take(RemoveChar(StrUpper(mac), ":"), 6)

OsGuess(mac) ==
    LET vendor == Vendor(mac)
    IN  IF StartsWith(vendor, <<"5", "C", "1", "F">>) THEN "Apple"
        ELSE IF StartsWith(vendor, <<"F", "C", "F", "B">>) THEN "Windows"
        ELSE IF StartsWith(vendor, <<"A", "1", "B", "2">>) THEN "Android"
        ELSE "Unknown"

(***************************************************************************)
(* The environment: the hosts that may answer an ARP sweep, reverse DNS,   *)
(* and what the user may type into the subnet entry.                       *)
(***************************************************************************)
MacApple   == <<"5", "c", ":", "1", "f", ":", "0", "0", ":", "1", "1", ":", "2", "2", ":", "3", "3">>
MacWindows == <<"F", "C", ":", "F", "B", ":", "A", "A", ":", "B", "B", ":", "C", "C", ":", "D", "D">>

\* the (psrc, hwsrc) pairs an ARP reply may carry; a list of replies may hold
\* the same reply more than once
Replies == { <<"10.0.0.5", MacApple>>, <<"10.0.0.6", MacWindows>> }

RECURSIVE SeqsUpTo(_, _)
SeqsUpTo(S, n) ==
    IF n = 0 THEN { <<>> }
    ELSE LET shorter == SeqsUpTo(S, n - 1)
         IN  shorter \cup { Append(q, x) : q \in shorter, x \in S }

\* what arping may return
AnswerLists == SeqsUpTo(Replies, MaxReplies)

\* socket.gethostbyaddr(ip)[0]: 10.0.0.5 has a PTR record, the others raise
HasPtr(ip) == ip = "10.0.0.5"
PtrName(ip) == "printer.lan"

\* the address getsockname() reports on this host
HostIp == <<192, 168, 1, 17>>

TextPaddedNet == <<" ">> \o IpText(<<10, 0, 0, 5>>) \o <<"/", "2", "4">>
TextNotAnIp   == <<"n", "o", "t", "-", "a", "n", "-", "i", "p">>
TextBadPrefix == IpText(<<10, 0, 0, 0>>) \o <<"/", "9", "9">>

\* what the user may type into the subnet entry
EntryTexts == { TextPaddedNet, TextNotAnIp, TextBadPrefix }

(***************************************************************************)
(* State.                                                                  *)
(***************************************************************************)
VARIABLES
    DEFAULT_SUBNET,  \* the module global (dev.py:27, 122-123)
    subnet_var,      \* the text of the subnet entry (dev.py:82)
    devices,         \* self.devices (dev.py:107)
    selected,        \* self.selected: <<>> for None, else <<device>> (dev.py:109)
    troll_btn,       \* the state of the troll button (dev.py:95)
    info_label,      \* the text of the info label (dev.py:88)
    running,         \* self.running (dev.py:114)
    destroyed,       \* the Tk application has been destroyed (dev.py:135)
    canvas,          \* the devices bound to the dots of the last frame (dev.py:198-205)
    pc,              \* where the main thread and the scan thread are
    subnet,          \* scan_network's local of each thread (dev.py:143)
    ans,             \* scan_network's local of each thread (dev.py:146-149)
    found,           \* scan_network's local of each thread (dev.py:152-165)
    idx,             \* how many of found the refill loop has appended (dev.py:171)
    published,       \* history: the device list when the last scan completed
    rejected,        \* history: update_subnet rejected the text now in the entry
    afterReject,     \* history: the scan of each thread started after a rejection
    scansAfterStop,  \* history: calls of scan_network made after on_close began
    gls,             \* one call of get_local_subnet (network_utils.py)
    cls              \* one classification of a MAC address (dev.py:160-164)

appVars == <<DEFAULT_SUBNET, subnet_var, devices, selected, troll_btn, info_label,
             running, destroyed, canvas, pc, subnet, ans, found, idx,
             published, rejected, afterReject, scansAfterStop>>

vars == <<appVars, gls, cls>>

Threads == {"main", "worker"}

ScanPcs == {"scan_enter", "scan_probe", "scan_classify", "scan_clear",
            "scan_disable", "scan_fill"}

\* thread t is inside scan_network
InScan(t) == pc[t] \in ScanPcs

Label(kind, n, who) == [kind |-> kind, n |-> n, who |-> who]

\* the dict scan_network builds for one reply (dev.py:154-165); the random
\* drawing position added at dev.py:172-176 is presentation and is left out
Device(reply) ==
    [ip   |-> reply[1],
     mac  |-> reply[2],
     host |-> IF HasPtr(reply[1]) THEN PtrName(reply[1]) ELSE reply[1],
     os   |-> OsGuess(reply[2])]

\* get_local_subnet's last two lines, for the local address text
LocalSubnet(local_ip) == NetText(IPv4Network(local_ip \o <<"/", "2", "4">>))

GlsIdle == [pc |-> "idle", sockOpen |-> FALSE, failed |-> FALSE,
            local_ip |-> <<>>, result |-> <<>>]

ClsIdle == [pc |-> "idle", mac |-> <<>>, guess |-> "", lowerGuess |-> ""]

\* the scan thread started before the initial scan instead of after it
AppInitThreadFirst ==
    /\ DEFAULT_SUBNET = LocalSubnet(IpText(HostIp))
    /\ subnet_var = DEFAULT_SUBNET
    /\ devices = <<>>
    /\ selected = <<>>
    /\ troll_btn = "disabled"
    /\ info_label = Label("initial", 0, "")
    /\ running = TRUE
    /\ destroyed = FALSE
    /\ canvas = <<>>
    /\ pc = [t \in Threads |-> IF t = "main" THEN "scan_enter" ELSE "loop_check"]
    /\ subnet = [t \in Threads |-> <<>>]
    /\ ans = [t \in Threads |-> <<>>]
    /\ found = [t \in Threads |-> <<>>]
    /\ idx = [t \in Threads |-> 0]
    /\ published = <<>>
    /\ rejected = FALSE
    /\ afterReject = [t \in Threads |-> FALSE]
    /\ scansAfterStop = 0

\* DeviceRadarApp.__init__ up to the call of scan_network at dev.py:112;
\* self.running is assigned at dev.py:114 and read by nothing before that
AppInit ==
    /\ DEFAULT_SUBNET = LocalSubnet(IpText(HostIp))
    /\ subnet_var = DEFAULT_SUBNET
    /\ devices = <<>>
    /\ selected = <<>>
    /\ troll_btn = "disabled"
    /\ info_label = Label("initial", 0, "")
    /\ running = FALSE
    /\ destroyed = FALSE
    /\ canvas = <<>>
    /\ pc = [t \in Threads |-> IF t = "main" THEN "scan_enter" ELSE "unstarted"]
    /\ subnet = [t \in Threads |-> <<>>]
    /\ ans = [t \in Threads |-> <<>>]
    /\ found = [t \in Threads |-> <<>>]
    /\ idx = [t \in Threads |-> 0]
    /\ published = <<>>
    /\ rejected = FALSE
    /\ afterReject = [t \in Threads |-> FALSE]
    /\ scansAfterStop = 0

Init == AppInit /\ gls = GlsIdle /\ cls = ClsIdle

(***************************************************************************)
(* scan_network, statement by statement at the places where the two        *)
(* threads can interleave.                                                 *)
(***************************************************************************)
\* where scan_network returns to: __init__ (dev.py:113) or scan_loop (dev.py:140)
ReturnPc(t) == IF t = "main" THEN "init_start" ELSE "sleep"

\* the scan's locals go out of scope
DropLocals(t) ==
    /\ subnet' = [subnet EXCEPT ![t] = <<>>]
    /\ ans' = [ans EXCEPT ![t] = <<>>]
    /\ found' = [found EXCEPT ![t] = <<>>]
    /\ idx' = [idx EXCEPT ![t] = 0]
    /\ afterReject' = [afterReject EXCEPT ![t] = FALSE]

\* a Tk call made once the application is destroyed raises (TclError, or
\* RuntimeError from a thread that is not the main loop's) or never returns:
\* scan_network is left and, in the scan thread, scan_loop ends with it
TkAbort(t) ==
    /\ destroyed
    /\ pc' = [pc EXCEPT ![t] = "raised"]
    /\ DropLocals(t)
    /\ UNCHANGED <<DEFAULT_SUBNET, subnet_var, devices, selected, troll_btn,
                   info_label, running, destroyed, canvas, published, rejected,
                   scansAfterStop>>

\* dev.py:143  subnet = self.subnet_var.get(); the Tcl variable outlives the
\* window, so after destroy() the read may still succeed
ScanReadSubnet(t) ==
    /\ pc[t] = "scan_enter"
    /\ \/ /\ pc' = [pc EXCEPT ![t] = "scan_probe"]
          /\ subnet' = [subnet EXCEPT ![t] = subnet_var]
          /\ afterReject' = [afterReject EXCEPT ![t] = rejected]
          /\ UNCHANGED <<DEFAULT_SUBNET, subnet_var, devices, selected, troll_btn,
                         info_label, running, destroyed, canvas, ans, found, idx,
                         published, rejected, scansAfterStop>>
       \/ TkAbort(t)
    /\ UNCHANGED <<gls, cls>>

\* dev.py:145-149  arping returns the replies, or raises and ans = []; a text
\* that names no network cannot be swept and raises
Arping(t) ==
    /\ pc[t] = "scan_probe"
    /\ \/ /\ NetworkOk(Strip(subnet[t]))
          /\ \E a \in AnswerLists : ans' = [ans EXCEPT ![t] = a]
       \/ ans' = [ans EXCEPT ![t] = <<>>]
    /\ pc' = [pc EXCEPT ![t] = "scan_classify"]
    /\ UNCHANGED <<DEFAULT_SUBNET, subnet_var, devices, selected, troll_btn,
                   info_label, running, destroyed, canvas, subnet, found, idx,
                   published, rejected, afterReject, scansAfterStop, gls, cls>>

\* dev.py:152-165  found = [one dict per reply, in reply order]
Classify(t) ==
    /\ pc[t] = "scan_classify"
    /\ found' = [found EXCEPT ![t] = [i \in 1..Len(ans[t]) |-> Device(ans[t][i])]]
    /\ ans' = [ans EXCEPT ![t] = <<>>]
    /\ pc' = [pc EXCEPT ![t] = "scan_clear"]
    /\ UNCHANGED <<DEFAULT_SUBNET, subnet_var, devices, selected, troll_btn,
                   info_label, running, destroyed, canvas, subnet, idx,
                   published, rejected, afterReject, scansAfterStop, gls, cls>>

\* the list cleared only when the scan found something
ClearDevicesKeepStale(t) ==
    /\ pc[t] = "scan_clear"
    /\ devices' = IF found[t] = <<>> THEN devices ELSE <<>>
    /\ pc' = [pc EXCEPT ![t] = "scan_disable"]
    /\ UNCHANGED <<DEFAULT_SUBNET, subnet_var, selected, troll_btn, info_label,
                   running, destroyed, canvas, subnet, ans, found, idx,
                   published, rejected, afterReject, scansAfterStop, gls, cls>>

\* dev.py:168-169  self.devices.clear()
ClearDevices(t) ==
    /\ pc[t] = "scan_clear"
    /\ devices' = <<>>
    /\ pc' = [pc EXCEPT ![t] = "scan_disable"]
    /\ UNCHANGED <<DEFAULT_SUBNET, subnet_var, selected, troll_btn, info_label,
                   running, destroyed, canvas, subnet, ans, found, idx,
                   published, rejected, afterReject, scansAfterStop, gls, cls>>

\* dev.py:170  self.troll_btn.state(['disabled'])
DisableTroll(t) ==
    /\ pc[t] = "scan_disable"
    /\ \/ /\ ~destroyed
          /\ troll_btn' = "disabled"
          /\ pc' = [pc EXCEPT ![t] = "scan_fill"]
          /\ UNCHANGED <<DEFAULT_SUBNET, subnet_var, devices, selected, info_label,
                         running, destroyed, canvas, subnet, ans, found, idx,
                         published, rejected, afterReject, scansAfterStop>>
       \/ TkAbort(t)
    /\ UNCHANGED <<gls, cls>>

\* dev.py:171-177  one turn of the refill loop: self.devices.append(d)
AppendDevice(t) ==
    /\ pc[t] = "scan_fill"
    /\ idx[t] < Len(found[t])
    /\ devices' = Append(devices, found[t][idx[t] + 1])
    /\ idx' = [idx EXCEPT ![t] = idx[t] + 1]
    /\ UNCHANGED <<DEFAULT_SUBNET, subnet_var, selected, troll_btn, info_label,
                   running, destroyed, canvas, pc, subnet, ans, found,
                   published, rejected, afterReject, scansAfterStop, gls, cls>>

\* dev.py:179  the loop is over; the label shows len(self.devices) and
\* scan_network returns
SetCountLabel(t) ==
    /\ pc[t] = "scan_fill"
    /\ idx[t] = Len(found[t])
    /\ \/ /\ ~destroyed
          /\ info_label' = Label("found", Len(devices), "")
          /\ published' = devices
          /\ pc' = [pc EXCEPT ![t] = ReturnPc(t)]
          /\ DropLocals(t)
          /\ UNCHANGED <<DEFAULT_SUBNET, subnet_var, devices, selected, troll_btn,
                         running, destroyed, canvas, rejected, scansAfterStop>>
       \/ TkAbort(t)
    /\ UNCHANGED <<gls, cls>>

scan_network(t) ==
    \/ ScanReadSubnet(t)
    \/ Arping(t)
    \/ Classify(t)
    \/ ClearDevices(t)
    \/ DisableTroll(t)
    \/ AppendDevice(t)
    \/ SetCountLabel(t)

(***************************************************************************)
(* The rest of __init__, and scan_loop.                                    *)
(***************************************************************************)
\* dev.py:113-115  self.running = True; the daemon thread is started
StartThread ==
    /\ pc["main"] = "init_start"
    /\ running' = TRUE
    /\ pc' = [pc EXCEPT !["main"] = "init_animate", !["worker"] = "loop_check"]
    /\ UNCHANGED <<DEFAULT_SUBNET, subnet_var, devices, selected, troll_btn,
                   info_label, destroyed, canvas, subnet, ans, found, idx,
                   published, rejected, afterReject, scansAfterStop, gls, cls>>

\* dev.py:198-210  draw_radar: one dot per device of self.devices, each bound
\* to its device
draw_radar == canvas' = devices

\* dev.py:116 and 251  the first frame is drawn and the main loop entered
FirstAnimate ==
    /\ pc["main"] = "init_animate"
    /\ draw_radar
    /\ pc' = [pc EXCEPT !["main"] = "mainloop"]
    /\ UNCHANGED <<DEFAULT_SUBNET, subnet_var, devices, selected, troll_btn,
                   info_label, running, destroyed, subnet, ans, found, idx,
                   published, rejected, afterReject, scansAfterStop, gls, cls>>

\* dev.py:138  while self.running
CheckRunning ==
    /\ pc["worker"] = "loop_check"
    /\ pc' = [pc EXCEPT !["worker"] = IF running THEN "loop_call" ELSE "finished"]
    /\ UNCHANGED <<DEFAULT_SUBNET, subnet_var, devices, selected, troll_btn,
                   info_label, running, destroyed, canvas, subnet, ans, found, idx,
                   published, rejected, afterReject, scansAfterStop, gls, cls>>

\* dev.py:139  self.scan_network() is called
CallScan ==
    /\ pc["worker"] = "loop_call"
    /\ pc' = [pc EXCEPT !["worker"] = "scan_enter"]
    /\ scansAfterStop' = IF running THEN scansAfterStop ELSE scansAfterStop + 1
    /\ UNCHANGED <<DEFAULT_SUBNET, subnet_var, devices, selected, troll_btn,
                   info_label, running, destroyed, canvas, subnet, ans, found, idx,
                   published, rejected, afterReject, gls, cls>>

\* dev.py:140  time.sleep(SCAN_INTERVAL) returns
Wake ==
    /\ pc["worker"] = "sleep"
    /\ pc' = [pc EXCEPT !["worker"] = "loop_check"]
    /\ UNCHANGED <<DEFAULT_SUBNET, subnet_var, devices, selected, troll_btn,
                   info_label, running, destroyed, canvas, subnet, ans, found, idx,
                   published, rejected, afterReject, scansAfterStop, gls, cls>>

scan_loop == CheckRunning \/ CallScan \/ Wake

(***************************************************************************)
(* The handlers the main loop runs, one at a time.                         *)
(***************************************************************************)
\* dev.py:212-215  animate: the next frame
animate ==
    /\ pc["main"] = "mainloop"
    /\ canvas # devices
    /\ draw_radar
    /\ UNCHANGED <<DEFAULT_SUBNET, subnet_var, devices, selected, troll_btn,
                   info_label, running, destroyed, pc, subnet, ans, found, idx,
                   published, rejected, afterReject, scansAfterStop, gls, cls>>

\* dev.py:205, 217-221  a click on dot i of the canvas calls on_select with the
\* device bound to that dot
on_select(i) ==
    /\ pc["main"] = "mainloop"
    /\ i \in DOMAIN canvas
    /\ selected' = <<canvas[i]>>
    /\ info_label' = Label("selected", 0, canvas[i].ip)
    /\ troll_btn' = "normal"
    /\ UNCHANGED <<DEFAULT_SUBNET, subnet_var, devices, running, destroyed,
                   canvas, pc, subnet, ans, found, idx,
                   published, rejected, afterReject, scansAfterStop, gls, cls>>

\* dev.py:95, 223-247  a click on the enabled troll button
troll_selected ==
    /\ pc["main"] = "mainloop"
    /\ troll_btn = "normal"
    /\ info_label' = IF selected = <<>> THEN info_label
                     ELSE Label("troll", 0, selected[1].ip)
    /\ UNCHANGED <<DEFAULT_SUBNET, subnet_var, devices, selected, troll_btn,
                   running, destroyed, canvas, pc, subnet, ans, found, idx,
                   published, rejected, afterReject, scansAfterStop, gls, cls>>

\* dev.py:82-84  the user types a text into the subnet entry
EditSubnet(text) ==
    /\ pc["main"] = "mainloop"
    /\ text # subnet_var
    /\ subnet_var' = text
    /\ rejected' = FALSE
    /\ UNCHANGED <<DEFAULT_SUBNET, devices, selected, troll_btn, info_label,
                   running, destroyed, canvas, pc, subnet, ans, found, idx,
                   published, afterReject, scansAfterStop, gls, cls>>

\* dev.py:118-127  the Set button
update_subnet ==
    /\ pc["main"] = "mainloop"
    /\ LET val == Strip(subnet_var)
       IN  IF NetworkOk(val)
           THEN /\ DEFAULT_SUBNET' = val
                /\ info_label' = Label("subnet", 0, "")
                /\ rejected' = FALSE
           ELSE \* messagebox.showerror
                /\ rejected' = TRUE
                /\ UNCHANGED <<DEFAULT_SUBNET, info_label>>
    /\ UNCHANGED <<subnet_var, devices, selected, troll_btn, running, destroyed,
                   canvas, pc, subnet, ans, found, idx,
                   published, afterReject, scansAfterStop, gls, cls>>

\* dev.py:134  on_close: self.running = False
CloseStop ==
    /\ pc["main"] = "mainloop"
    /\ running' = FALSE
    /\ pc' = [pc EXCEPT !["main"] = "closing"]
    /\ UNCHANGED <<DEFAULT_SUBNET, subnet_var, devices, selected, troll_btn,
                   info_label, destroyed, canvas, subnet, ans, found, idx,
                   published, rejected, afterReject, scansAfterStop, gls, cls>>

\* dev.py:135  on_close: self.destroy(); the main loop then returns
CloseDestroy ==
    /\ pc["main"] = "closing"
    /\ destroyed' = TRUE
    /\ pc' = [pc EXCEPT !["main"] = "closed"]
    /\ UNCHANGED <<DEFAULT_SUBNET, subnet_var, devices, selected, troll_btn,
                   info_label, running, canvas, subnet, ans, found, idx,
                   published, rejected, afterReject, scansAfterStop, gls, cls>>

on_close == CloseStop \/ CloseDestroy

\* dev.py:115, 251  app.mainloop() has returned and the interpreter exits: the
\* daemon thread is stopped wherever it is
Exit ==
    /\ pc["main"] = "closed"
    /\ pc' = [pc EXCEPT !["main"] = "exited",
                        !["worker"] = IF pc["worker"] \in {"finished", "raised"}
                                      THEN pc["worker"] ELSE "killed"]
    /\ DropLocals("worker")
    /\ UNCHANGED <<DEFAULT_SUBNET, subnet_var, devices, selected, troll_btn,
                   info_label, running, destroyed, canvas, published, rejected,
                   scansAfterStop, gls, cls>>

(***************************************************************************)
(* get_local_subnet (network_utils.py:4-19), statement by statement.       *)
(***************************************************************************)
\* the addresses getsockname() may report
LocalIps ==
    { <<a, b, c, d>> : a \in {10, 192}, b \in {0, 168}, c \in {0, 1, 254},
                       d \in {1, 17, 255} }

Loopback == IpText(<<127, 0, 0, 1>>)

\* network_utils.py:10  socket.socket(...) is outside the try: its error
\* leaves the function
GlsSocket ==
    /\ gls.pc = "socket"
    /\ \/ gls' = [gls EXCEPT !.pc = "raised"]
       \/ gls' = [gls EXCEPT !.pc = "connect", !.sockOpen = TRUE]
    /\ UNCHANGED <<appVars, cls>>

\* network_utils.py:12, 14-15  s.connect(...), or the except clause
GlsConnect ==
    /\ gls.pc = "connect"
    /\ \/ gls' = [gls EXCEPT !.pc = "getsockname"]
       \/ gls' = [gls EXCEPT !.pc = "finally", !.failed = TRUE,
                             !.local_ip = Loopback]
    /\ UNCHANGED <<appVars, cls>>

\* network_utils.py:13-15  local_ip = s.getsockname()[0], or the except clause
GlsGetsockname ==
    /\ gls.pc = "getsockname"
    /\ \/ \E a \in LocalIps :
            gls' = [gls EXCEPT !.pc = "finally", !.local_ip = IpText(a)]
       \/ gls' = [gls EXCEPT !.pc = "finally", !.failed = TRUE,
                             !.local_ip = Loopback]
    /\ UNCHANGED <<appVars, cls>>

\* network_utils.py:16-17  finally: s.close()
GlsFinally ==
    /\ gls.pc = "finally"
    /\ gls' = [gls EXCEPT !.pc = "network", !.sockOpen = FALSE]
    /\ UNCHANGED <<appVars, cls>>

\* network_utils.py:18-19  return str(IPv4Network(f"{local_ip}/24", strict=False))
GlsReturn ==
    /\ gls.pc = "network"
    /\ gls' = [gls EXCEPT !.pc = "returned", !.result = LocalSubnet(gls.local_ip)]
    /\ UNCHANGED <<appVars, cls>>

get_local_subnet ==
    GlsSocket \/ GlsConnect \/ GlsGetsockname \/ GlsFinally \/ GlsReturn

(***************************************************************************)
(* The classification of one hardware address (dev.py:160-164), applied to *)
(* the address as written and to the same address in lower case.           *)
(***************************************************************************)
FirstOctets  == { <<"5", "C">>, <<"5", "c">>, <<"F", "C">>, <<"f", "c">>,
                  <<"A", "1">>, <<"a", "1">>, <<"0", "0">>, <<"5", "D">> }
SecondOctets == { <<"1", "F">>, <<"1", "f">>, <<"F", "B">>, <<"f", "b">>,
                  <<"B", "2">>, <<"b", "2">>, <<"0", "0">> }
MacTails     == { <<"0", "0", ":", "1", "1", ":", "2", "2", ":", "3", "3">>,
                  <<"A", "A", ":", "B", "B", ":", "C", "C", ":", "D", "D">>,
                  <<"0", "0", ":", "0", "0", ":", "0", "0", ":", "0", "0">> }

\* the hardware addresses classified
MacInputs ==
    { o1 \o <<":">> \o o2 \o <<":">> \o tl :
        o1 \in FirstOctets, o2 \in SecondOctets, tl \in MacTails }

\* dev.py:160-164 for the address as the reply gives it
ClassifyMac ==
    /\ cls.pc = "start"
    /\ cls' = [cls EXCEPT !.pc = "lower", !.guess = OsGuess(cls.mac)]
    /\ UNCHANGED <<appVars, gls>>

\* dev.py:160-164 for the same address in lower case
ClassifyLower ==
    /\ cls.pc = "lower"
    /\ cls' = [cls EXCEPT !.pc = "done", !.lowerGuess = OsGuess(StrLower(cls.mac))]
    /\ UNCHANGED <<appVars, gls>>

(***************************************************************************)
(* Specifications.  The threads of the application (the initial scan, the  *)
(* scan loop, closing the window) are followed in each of the first three; *)
(* SpecRadar adds the handlers of the radar (frames, clicks on dots, the   *)
(* troll button), SpecSubnet those of the subnet entry.                    *)
(***************************************************************************)
Lifecycle ==
    \/ \E t \in Threads : scan_network(t)
    \/ StartThread
    \/ FirstAnimate
    \/ scan_loop
    \/ on_close
    \/ Exit

Next == Lifecycle

Spec == Init /\ [][Next]_vars

NextRadar ==
    \/ Lifecycle
    \/ animate
    \/ \E i \in 1..MaxReplies : on_select(i)
    \/ troll_selected

SpecRadar == Init /\ [][NextRadar]_vars

NextSubnet ==
    \/ Lifecycle
    \/ \E text \in EntryTexts : EditSubnet(text)
    \/ update_subnet

SpecSubnet == Init /\ [][NextSubnet]_vars

InitDetect ==
    /\ AppInit
    /\ cls = ClsIdle
    /\ gls = [GlsIdle EXCEPT !.pc = "socket"]

SpecDetect == InitDetect /\ [][get_local_subnet]_vars

InitClassify ==
    /\ AppInit
    /\ gls = GlsIdle
    /\ cls \in { [ClsIdle EXCEPT !.pc = "start", !.mac = m] : m \in MacInputs }

NextClassify == ClassifyMac \/ ClassifyLower

SpecClassify == InitClassify /\ [][NextClassify]_vars

(***************************************************************************)
(* Properties.                                                             *)
(***************************************************************************)
\* the main loop is running: its handlers, the readers of self.devices, can run
ReaderCanRun == pc["main"] = "mainloop"

\* thread t has built the list of its scan and is publishing it
Publishing(t) == pc[t] \in {"scan_clear", "scan_disable", "scan_fill"}

\* C1: whenever the reader can run, self.devices is the complete list of the
\* last completed scan or the complete list of the scan being published, and a
\* label that reports a device count reports the length of self.devices.
C1_ReaderSeesCompleteList ==
    ReaderCanRun =>
        /\ \/ devices = published
           \/ \E t \in Threads : Publishing(t) /\ devices = found[t]
        /\ (info_label.kind = "found" => info_label.n = Len(devices))

\* C2: a scan that starts after update_subnet rejected the entry's text
\* probes the subnet that was in effect before, DEFAULT_SUBNET.
C2_RejectedInputNotScanned ==
    \A t \in Threads :
        (pc[t] = "scan_probe" /\ afterReject[t]) => subnet[t] = DEFAULT_SUBNET

\* C3: when on_close has torn the application down, the scan that was in
\* flight when it was called is no longer in flight: it has been published.
C3_InFlightScanDrained ==
    ~(destroyed /\ InScan("worker") /\ scansAfterStop = 0)

\* C4: no call of scan_network is made after on_close has begun.
C4_NoScanAfterStop == scansAfterStop = 0

\* C5: the initial scan of __init__ and the scans of scan_loop never run at the
\* same time: at most one thread is inside scan_network.
C5_ScansSequential == Cardinality({t \in Threads : InScan(t)}) <= 1

\* a scan of the loop in progress, the initial scan over and the window open
C5_Witness ==
    /\ InScan("worker")
    /\ pc["main"] = "mainloop"
    /\ info_label.kind = "found"

\* C6: a scan whose probe returned nothing or raised leaves self.devices empty
\* from the clear on, leaves scan_network without an error while the
\* application is up, reports 0 devices, and scan_loop goes on to its sleep.
C6_EmptyScanPublishesEmpty ==
    /\ \A t \in Threads :
          (pc[t] \in {"scan_disable", "scan_fill"} /\ found[t] = <<>>)
              => devices = <<>>
    /\ (pc["worker"] = "raised" => destroyed)
    /\ (pc["worker"] = "sleep" /\ info_label = Label("found", 0, "")
           => devices = <<>> /\ published = <<>>)

\* an empty scan of the loop has completed after a scan that found devices
\* (they are still on the canvas), and the loop is in its sleep
C6_Witness ==
    /\ pc["worker"] = "sleep"
    /\ pc["main"] = "mainloop"
    /\ info_label = Label("found", 0, "")
    /\ devices = <<>>
    /\ canvas # <<>>

\* C7: every IP address appears at most once in self.devices.
C7_UniqueIps ==
    \A i, j \in DOMAIN devices : devices[i].ip = devices[j].ip => i = j

OsLabels == {"Windows", "Apple", "Android", "Unknown"}

\* the first two octets of a hardware address, upper-cased, looked up in the table
TableGuess(mac) ==
    LET p == <<UpperChar(mac[1]), UpperChar(mac[2]), UpperChar(mac[4]), UpperChar(mac[5])>>
    IN  IF p = <<"5", "C", "1", "F">> THEN "Apple"
        ELSE IF p = <<"F", "C", "F", "B">> THEN "Windows"
        ELSE IF p = <<"A", "1", "B", "2">> THEN "Android"
        ELSE "Unknown"

\* C8: the guess is the table's label for the upper-cased vendor prefix,
\* Unknown for a prefix the table lacks, one of the four labels, and the same
\* for the address written in lower case.
C8_GuessFromPrefix ==
    cls.pc = "done" =>
        /\ cls.guess = TableGuess(cls.mac)
        /\ cls.guess \in OsLabels
        /\ cls.lowerGuess = cls.guess

\* a lower-case address with a prefix of the table has been classified
C8_Witness ==
    /\ cls.pc = "done"
    /\ cls.mac # StrUpper(cls.mac)
    /\ cls.guess = "Apple"

\* C9: get_local_subnet never raises; when it returns the socket is closed,
\* after a failure the result is 127.0.0.1/24, and otherwise it is the /24
\* network of the local address.
C9_NeverFailsHard ==
    /\ gls.pc # "raised"
    /\ gls.pc = "returned" =>
          /\ ~gls.sockOpen
          /\ (gls.failed => gls.result = Loopback \o <<"/", "2", "4">>)
          /\ (~gls.failed => gls.result = LocalSubnet(gls.local_ip))

\* C10: whenever the troll button is enabled and a device is selected, and no
\* scan is in the middle of replacing the list, the address of the selected
\* device is in self.devices, the list of the last completed scan.
C10_SelectedInTable ==
    (troll_btn = "normal" /\ selected # <<>> /\ \A t \in Threads : ~Publishing(t)) =>
        \E i \in DOMAIN devices : devices[i].ip = selected[1].ip
====
